---- MODULE Spec2Model ----
(***************************************************************************)
(* Model of osc.py: UPRN address points are joined to the CityJSON         *)
(* buildings that contain them and the matches are written back into each  *)
(* building's attributes.                                                  *)
(*                                                                         *)
(* Python values are modelled as follows.                                  *)
(*   - A list element of a CityJSON "boundaries" array is either an int    *)
(*     (I(n)) or a list (L(items)); a Python list is a TLA+ sequence of    *)
(*     such elements.  Python indexes from 0, sequences from 1.            *)
(*   - A call that may raise returns Ok(value) or Raise(kind).             *)
(*   - A shapely Polygon is represented by the coordinate sequence of its  *)
(*     exterior ring (polygon.exterior.coords).  Only x and y are kept:    *)
(*     elevation is carried along by shapely and plays no part in "within".*)
(***************************************************************************)
EXTENDS Integers, Sequences, FiniteSets, TLC

(***************************************************************************)
(* Bounds of the model.                                                    *)
(***************************************************************************)
MaxIndex == 3
MaxLeafLen == 4
MaxDepth == 2
MaxWrap == 2
MaxPoints == 3
MaxBuildings == 2

TARGET_CRS == 3857

(***************************************************************************)
(* Python values and exceptions.                                           *)
(***************************************************************************)
I(n) == [isList |-> FALSE, val |-> n, items |-> <<>>]
L(s) == [isList |-> TRUE, val |-> 0, items |-> s]

Ok(v) == [ok |-> TRUE, value |-> v, error |-> "none"]
Raise(e) == [ok |-> FALSE, value |-> <<>>, error |-> e]

Min(S) == CHOOSE x \in S : \A y \in S : x <= y

\* seq[i] for a Python list: negative i counts from the end, anything
\* outside -len .. len-1 raises IndexError.
PyIndex(seq, i) ==
    IF i >= 0 /\ i < Len(seq) THEN Ok(seq[i + 1])
    ELSE IF i < 0 /\ i >= -Len(seq) THEN Ok(seq[Len(seq) + i + 1])
    ELSE Raise("IndexError")

(***************************************************************************)
(* get_exterior_ring                                                       *)
(***************************************************************************)
\* Faulty variant of VertexLookup: the indices are taken as counting from 1.
VertexLookup_offByOne(vertices, boundaries) ==
    LET bad == {k \in 1..Len(boundaries) :
                    \/ boundaries[k].isList
                    \/ ~PyIndex(vertices, boundaries[k].val - 1).ok}
    IN IF bad = {}
       THEN Ok([k \in 1..Len(boundaries) |->
                    PyIndex(vertices, boundaries[k].val - 1).value])
       ELSE IF boundaries[Min(bad)].isList THEN Raise("TypeError")
       ELSE Raise("IndexError")

\* [vertices[index] for index in boundaries]: the elements are looked up
\* left to right and the first failing lookup raises (a list used as an
\* index is a TypeError, an index outside the table an IndexError).
VertexLookup(vertices, boundaries) ==
    LET bad == {k \in 1..Len(boundaries) :
                    \/ boundaries[k].isList
                    \/ ~PyIndex(vertices, boundaries[k].val).ok}
    IN IF bad = {}
       THEN Ok([k \in 1..Len(boundaries) |-> PyIndex(vertices, boundaries[k].val).value])
       ELSE IF boundaries[Min(bad)].isList THEN Raise("TypeError")
       ELSE Raise("IndexError")

\* shapely's Polygon(coordinates): the shell becomes a LinearRing.  No
\* coordinates give the empty polygon; one or two coordinates are refused;
\* the ring is closed by repeating the first coordinate at the end when the
\* last one differs from it or when there are only three.
Polygon(coordinates) ==
    LET n == Len(coordinates)
    IN IF n = 0 THEN Ok(<<>>)
       ELSE IF n < 3 THEN Raise("GeometryError")
       ELSE IF n = 3 \/ coordinates[1] # coordinates[n]
            THEN Ok(Append(coordinates, coordinates[1]))
       ELSE Ok(coordinates)

\* Faulty variant of get_exterior_ring: one level of nesting is assumed instead of
\* recursing.
get_exterior_ring_oneLevel(vertices, boundaries) ==
    IF Len(boundaries) = 0 THEN Raise("IndexError")
    ELSE LET ring == IF boundaries[1].isList THEN boundaries[1].items ELSE boundaries
             coordinates == VertexLookup(vertices, ring)
         IN IF coordinates.ok THEN Polygon(coordinates.value) ELSE coordinates

\* Faulty variant of get_exterior_ring: an empty list is answered with the empty
\* polygon instead of failing on boundaries[0].
RECURSIVE get_exterior_ring_emptyOk(_, _)
get_exterior_ring_emptyOk(vertices, boundaries) ==
    IF Len(boundaries) = 0 THEN Polygon(<<>>)
    ELSE IF boundaries[1].isList
         THEN get_exterior_ring_emptyOk(vertices, boundaries[1].items)
    ELSE LET coordinates == VertexLookup(vertices, boundaries)
         IN IF coordinates.ok THEN Polygon(coordinates.value) ELSE coordinates

RECURSIVE get_exterior_ring(_, _)
get_exterior_ring(vertices, boundaries) ==
    IF Len(boundaries) = 0 THEN Raise("IndexError")
    ELSE IF boundaries[1].isList
         THEN get_exterior_ring(vertices, boundaries[1].items)
    ELSE LET coordinates == VertexLookup(vertices, boundaries)
         IN IF coordinates.ok THEN Polygon(coordinates.value) ELSE coordinates

(***************************************************************************)
(* extract_geometry                                                        *)
(***************************************************************************)
\* Faulty variant of ExtractOne: every geometry entry of the record must be a
\* MultiSurface, not only the first.
ExtractOne_allEntries(vertices, co) ==
    IF Len(co.geometry) = 0 THEN Raise("IndexError")
    ELSE IF \E g \in 1..Len(co.geometry) : co.geometry[g].type # "MultiSurface"
         THEN Raise("ValueError")
    ELSE LET polygon == get_exterior_ring(vertices, co.geometry[1].boundaries)
         IN IF polygon.ok
            THEN Ok([id |-> co.id, geometry |-> polygon.value])
            ELSE polygon

\* One iteration of the loop over cm.j["CityObjects"]: the row appended to
\* data, or the exception that leaves the function.
ExtractOne(vertices, co) ==
    IF Len(co.geometry) = 0 THEN Raise("IndexError")
    ELSE IF co.geometry[1].type # "MultiSurface" THEN Raise("ValueError")
    ELSE LET polygon == get_exterior_ring(vertices, co.geometry[1].boundaries)
         IN IF polygon.ok
            THEN Ok([id |-> co.id, geometry |-> polygon.value])
            ELSE polygon

\* Faulty variant of extract_geometry: a record of another geometry type is skipped
\* instead of ending the call.
extract_geometry_skipping(j) ==
    LET all == [k \in 1..Len(j.CityObjects) |-> ExtractOne(j.vertices, j.CityObjects[k])]
        rows == SelectSeq(all, LAMBDA r : r.error # "ValueError")
        bad == {k \in 1..Len(rows) : ~rows[k].ok}
    IN IF bad # {} THEN Raise(rows[Min(bad)].error)
       ELSE Ok([crs |-> TARGET_CRS,
                rows |-> [k \in 1..Len(rows) |-> rows[k].value]])

\* The records are visited in document order and the first exception ends
\* the call; otherwise the frame holds one row per record, tagged with
\* TARGET_CRS.
extract_geometry(j) ==
    LET rows == [k \in 1..Len(j.CityObjects) |-> ExtractOne(j.vertices, j.CityObjects[k])]
        bad == {k \in 1..Len(rows) : ~rows[k].ok}
    IN IF bad # {} THEN Raise(rows[Min(bad)].error)
       ELSE Ok([crs |-> TARGET_CRS,
                rows |-> [k \in 1..Len(rows) |-> rows[k].value]])

(***************************************************************************)
(* The spatial join: uprn.sjoin(gdf, predicate="within")                   *)
(*                       .groupby("id")["UPRN"].apply(list)                *)
(***************************************************************************)
\* p lies on the closed segment from a to b.
OnSegment(p, a, b) ==
    /\ (b[1] - a[1]) * (p[2] - a[2]) = (b[2] - a[2]) * (p[1] - a[1])
    /\ (p[1] - a[1]) * (p[1] - b[1]) <= 0
    /\ (p[2] - a[2]) * (p[2] - b[2]) <= 0

OnBoundary(p, ring) ==
    \E k \in 1..(Len(ring) - 1) : OnSegment(p, ring[k], ring[k + 1])

\* The edge from a to b crosses the horizontal ray leaving p towards +x.
Crosses(p, a, b) ==
    /\ (a[2] > p[2]) # (b[2] > p[2])
    /\ IF b[2] > a[2]
       THEN (p[1] - a[1]) * (b[2] - a[2]) < (p[2] - a[2]) * (b[1] - a[1])
       ELSE (p[1] - a[1]) * (b[2] - a[2]) > (p[2] - a[2]) * (b[1] - a[1])

\* The "within" predicate for a point and a polygon: the point is in the
\* polygon's interior (an odd number of ring crossings) and not on its ring.
Within(p, ring) ==
    /\ ~OnBoundary(p, ring)
    /\ Cardinality({k \in 1..(Len(ring) - 1) : Crosses(p, ring[k], ring[k + 1])}) % 2 = 1

\* Faulty variant of sjoin: a point is matched to one polygon at most, the first
\* that contains it.
sjoin_firstMatch(left, right) ==
    LET m == Len(right)
        pairs == [k \in 1..(Len(left) * m) |->
                    [l |-> ((k - 1) \div m) + 1, r |-> ((k - 1) % m) + 1]]
        hits == SelectSeq(pairs,
                    LAMBDA q :
                        /\ Within(left[q.l].geometry, right[q.r].geometry)
                        /\ \A r \in 1..(q.r - 1) :
                                ~Within(left[q.l].geometry, right[r].geometry))
    IN [k \in 1..Len(hits) |->
            [UPRN |-> left[hits[k].l].UPRN, id |-> right[hits[k].r].id]]

\* The rows of the joined frame: one row per (point row, polygon row) pair
\* that satisfies the predicate, ordered by point row and then polygon row.
sjoin(left, right) ==
    LET m == Len(right)
        pairs == [k \in 1..(Len(left) * m) |->
                    [l |-> ((k - 1) \div m) + 1, r |-> ((k - 1) % m) + 1]]
        hits == SelectSeq(pairs,
                    LAMBDA q : Within(left[q.l].geometry, right[q.r].geometry))
    IN [k \in 1..Len(hits) |->
            [UPRN |-> left[hits[k].l].UPRN, id |-> right[hits[k].r].id]]

\* Faulty variant of groupby_apply_list: each group's values are sorted.
groupby_apply_list_sorted(rows) ==
    LET keys == {rows[k].id : k \in 1..Len(rows)}
    IN [key \in keys |->
            LET group == SelectSeq(rows, LAMBDA r : r.id = key)
            IN SortSeq([k \in 1..Len(group) |-> group[k].UPRN],
                       LAMBDA a, b : a < b)]

\* groupby("id")["UPRN"].apply(list): a series indexed by the ids that occur
\* in the rows, each holding that group's UPRN values in row order.
groupby_apply_list(rows) ==
    LET keys == {rows[k].id : k \in 1..Len(rows)}
    IN [key \in keys |->
            LET group == SelectSeq(rows, LAMBDA r : r.id = key)
            IN [k \in 1..Len(group) |-> group[k].UPRN]]

\* A Python value that is a list or None.
PyList(s) == [isNone |-> FALSE, val |-> s]
PyNone == [isNone |-> TRUE, val |-> <<>>]

\* joined.get(co_id): the entry, or None when the series has none.
SeriesGet(series, key) ==
    IF key \in DOMAIN series THEN PyList(series[key]) ELSE PyNone

\* Faulty variant of OrEmptyList: the "or []" is left out.
OrEmptyList_dropped(x) == x

\* x or []: x when it is truthy (neither None nor an empty list).
OrEmptyList(x) ==
    IF ~x.isNone /\ Len(x.val) > 0 THEN x ELSE PyList(<<>>)

\* Faulty variant of SetUprn: the whole attribute bag is replaced by {"uprn": value}.
SetUprn_replacing(co, value) ==
    Ok([co EXCEPT !.attributes =
            [present |-> TRUE, other |-> "",
             uprn |-> [isSet |-> TRUE, isNone |-> value.isNone, val |-> value.val]]])

\* co["attributes"]["uprn"] = value: a KeyError when the record has no
\* "attributes" member, otherwise only the "uprn" entry of the bag changes.
SetUprn(co, value) ==
    IF ~co.attributes.present THEN Raise("KeyError")
    ELSE Ok([co EXCEPT !.attributes.uprn =
                [isSet |-> TRUE, isNone |-> value.isNone, val |-> value.val]])

(***************************************************************************)
(* Inputs.                                                                 *)
(***************************************************************************)
\* Boundary references for the resolver: every leaf of up to MaxLeafLen
\* indices in 0..MaxIndex, wrapped in up to MaxDepth lists, each wrapper
\* either alone or followed by a sibling surface.
Leaves == UNION {[1..n -> {I(i) : i \in 0..MaxIndex}] : n \in 0..MaxLeafLen}

Sibling == <<L(<<I(2), I(1), I(0)>>)>>

RECURSIVE Nest(_, _, _)
Nest(b, d, withSibling) ==
    IF d = 0 THEN b
    ELSE Nest(<<L(b)>> \o (IF withSibling THEN Sibling ELSE <<>>), d - 1, withSibling)

\* A leaf whose first element is an index and whose second is a list.
MixedLeaf == <<I(0), L(<<I(1)>>), I(2)>>

BoundaryRefs ==
    {Nest(leaf, d, s) : leaf \in Leaves, d \in 0..MaxDepth, s \in BOOLEAN}
        \cup {MixedLeaf, <<L(MixedLeaf)>>}

\* Vertex tables for the resolver: three vertices, and four of which the
\* last repeats the coordinates of the first.
VertexTables ==
    { << <<0, 0>>, <<0, 2>>, <<2, 2>> >>,
      << <<0, 0>>, <<0, 2>>, <<2, 2>>, <<0, 0>> >> }

\* The vertex table of Buildings.json: a square (0..3) inside a triangle
\* (0, 4, 5).
Vertices ==
    << <<0, 0>>, <<0, 2>>, <<2, 2>>, <<2, 0>>, <<0, 6>>, <<6, 0>> >>

Square == <<L(<<L(<<I(0), I(1), I(2), I(3)>>), L(<<I(4), I(5), I(0)>>)>>),
            L(<<L(<<I(0), I(4), I(5)>>)>>)>>
Triangle == <<L(<<L(<<I(0), I(4), I(5)>>)>>)>>
OutOfRange == <<L(<<L(<<I(0), I(1), I(6)>>)>>)>>

Geom(t, b) == [type |-> t, boundaries |-> b]
Attrs(p, u) == [present |-> p, other |-> "name", uprn |-> u]
Unset == [isSet |-> FALSE, isNone |-> FALSE, val |-> <<>>]
Stale == [isSet |-> TRUE, isNone |-> FALSE, val |-> <<999>>]

\* Building records as they may stand in Buildings.json (without their id).
RecordSamples ==
    { [geometry |-> <<Geom("MultiSurface", Square)>>, attributes |-> Attrs(TRUE, Unset)],
      [geometry |-> <<Geom("MultiSurface", Triangle)>>, attributes |-> Attrs(TRUE, Stale)],
      [geometry |-> <<Geom("Solid", Square)>>, attributes |-> Attrs(TRUE, Unset)],
      [geometry |-> <<Geom("MultiSurface", Square), Geom("Solid", Triangle)>>,
       attributes |-> Attrs(TRUE, Unset)],
      [geometry |-> <<>>, attributes |-> Attrs(TRUE, Unset)],
      [geometry |-> <<Geom("MultiSurface", OutOfRange)>>, attributes |-> Attrs(TRUE, Unset)],
      [geometry |-> <<Geom("MultiSurface", Square)>>, attributes |-> Attrs(FALSE, Unset)] }

\* The keys of "CityObjects", in document order.
CoId(k) == <<"B2", "B1", "B3", "B0">>[k]

Documents ==
    UNION {{[vertices |-> Vertices,
             CityObjects |-> [k \in 1..n |->
                [id |-> CoId(k), geometry |-> f[k].geometry,
                 attributes |-> f[k].attributes]]] :
                    f \in [1..n -> RecordSamples]} : n \in 0..MaxBuildings}

BuildingFiles ==
    {[ok |-> FALSE, j |-> [vertices |-> <<>>, CityObjects |-> <<>>]]}
        \cup {[ok |-> TRUE, j |-> d] : d \in Documents}

\* UPRN.csv: one row per address, in file order.  The position of a row is
\* given as the image of its (LONGITUDE, LATITUDE) under the reprojection
\* to TARGET_CRS.  The UPRNs are distinct and not in increasing order.
UprnId(k) == 100 + ((k * 3) % 7)

Positions == {<<1, 1>>, <<1, 3>>, <<5, 5>>, <<2, 1>>}

UprnFiles ==
    {[ok |-> FALSE, rows |-> <<>>]}
        \cup UNION {{[ok |-> TRUE,
                      rows |-> [k \in 1..n |-> [UPRN |-> UprnId(k), geometry |-> f[k]]]] :
                        f \in [1..n -> Positions]} : n \in 0..MaxPoints}

(***************************************************************************)
(* State.                                                                  *)
(***************************************************************************)
VARIABLES
    pc,          \* the stage main() is about to run
    log,         \* the messages printed so far
    uprn,        \* the address frame returned by load_uprn
    cm,          \* the city model: its epsg tag and its document cm.j
    loaded,      \* cm.j as load_buildings returned it
    gdf,         \* the frame returned by extract_geometry
    joined,      \* the series of UPRN lists by building id
    idx,         \* position of the update loop in cm.j["CityObjects"]
    writes,      \* how often each record's attribute bag has been written
    saved,       \* answer.json has been written
    answer,      \* the document handed to cityjson.save
    error,       \* the exception that ended the run, "none" otherwise
    rpc,         \* resolver harness: position
    rVertices,   \* resolver harness: the vertex table
    rBoundaries, \* resolver harness: the boundary reference
    rPlain,      \* get_exterior_ring(rVertices, rBoundaries)
    rWrapped,    \* the same under 1..MaxWrap single-element wrappers
    rExtract     \* extract_geometry of a document holding rBoundaries

mainVars == <<pc, log, uprn, cm, loaded, gdf, joined, idx, writes, saved, answer, error>>
resolverVars == <<rpc, rVertices, rBoundaries, rPlain, rWrapped, rExtract>>
vars == <<mainVars, resolverVars>>

EmptyDocument == [vertices |-> <<>>, CityObjects |-> <<>>]

MainInit ==
    /\ pc = "load_uprn"
    /\ log = <<>>
    /\ uprn = <<>>
    /\ cm = [epsg |-> 0, j |-> EmptyDocument]
    /\ loaded = EmptyDocument
    /\ gdf = [crs |-> 0, rows |-> <<>>]
    /\ joined = <<>>
    /\ idx = 0
    /\ writes = <<>>
    /\ saved = FALSE
    /\ answer = EmptyDocument
    /\ error = "none"

ResolverInit ==
    /\ rpc = "input"
    /\ rVertices = <<>>
    /\ rBoundaries = <<>>
    /\ rPlain = Raise("none")
    /\ rWrapped = <<>>
    /\ rExtract = Raise("none")

(***************************************************************************)
(* main                                                                    *)
(***************************************************************************)
\* An exception leaves main: nothing after the raising statement runs.
Abort(e) ==
    /\ pc' = "failed"
    /\ error' = e

\* log("Loading UPRN"); uprn = load_uprn("./data/UPRN.csv")
LoadUprn ==
    /\ pc = "load_uprn"
    /\ log' = Append(log, "Loading UPRN")
    /\ \E file \in UprnFiles :
        IF file.ok
        THEN /\ uprn' = file.rows
             /\ pc' = "load_buildings"
             /\ error' = error
        ELSE /\ Abort("InputError")
             /\ uprn' = uprn
    /\ UNCHANGED <<cm, loaded, gdf, joined, idx, writes, saved, answer>>
    /\ UNCHANGED resolverVars

\* log("Loading CityJSON"); cm = load_buildings("./data/Buildings.json")
LoadBuildings ==
    /\ pc = "load_buildings"
    /\ log' = Append(log, "Loading CityJSON")
    /\ \E file \in BuildingFiles :
        IF file.ok
        THEN /\ cm' = [epsg |-> TARGET_CRS, j |-> file.j]
             /\ loaded' = file.j
             /\ writes' = [k \in 1..Len(file.j.CityObjects) |-> 0]
             /\ pc' = "extract"
             /\ error' = error
        ELSE /\ Abort("InputError")
             /\ UNCHANGED <<cm, loaded, writes>>
    /\ UNCHANGED <<uprn, gdf, joined, idx, saved, answer>>
    /\ UNCHANGED resolverVars

\* log("Extracting geometry"); gdf = extract_geometry(cm)
ExtractGeometry ==
    /\ pc = "extract"
    /\ log' = Append(log, "Extracting geometry")
    /\ LET r == extract_geometry(cm.j)
       IN IF r.ok
          THEN /\ gdf' = r.value
               /\ pc' = "join"
               /\ error' = error
          ELSE /\ Abort(r.error)
               /\ gdf' = gdf
    /\ UNCHANGED <<uprn, cm, loaded, joined, idx, writes, saved, answer>>
    /\ UNCHANGED resolverVars

\* log("Executing spatial json"); joined = uprn.sjoin(...).groupby(...)...
SpatialJoin ==
    /\ pc = "join"
    /\ log' = Append(log, "Executing spatial json")
    /\ joined' = groupby_apply_list(sjoin(uprn, gdf.rows))
    /\ pc' = "update"
    /\ UNCHANGED <<uprn, cm, loaded, gdf, idx, writes, saved, answer, error>>
    /\ UNCHANGED resolverVars

\* log("Updating CityObjects") and the entry of the loop over the records.
BeginUpdate ==
    /\ pc = "update"
    /\ log' = Append(log, "Updating CityObjects")
    /\ idx' = 1
    /\ pc' = "update_loop"
    /\ UNCHANGED <<uprn, cm, loaded, gdf, joined, writes, saved, answer, error>>
    /\ UNCHANGED resolverVars

\* One iteration: co["attributes"]["uprn"] = joined.get(co_id) or []
UpdateCityObject ==
    /\ pc = "update_loop"
    /\ idx <= Len(cm.j.CityObjects)
    /\ LET co == cm.j.CityObjects[idx]
           r == SetUprn(co, OrEmptyList(SeriesGet(joined, co.id)))
       IN IF r.ok
          THEN /\ cm' = [cm EXCEPT !.j.CityObjects[idx] = r.value]
               /\ writes' = [writes EXCEPT ![idx] = @ + 1]
               /\ idx' = idx + 1
               /\ UNCHANGED <<pc, error>>
          ELSE /\ Abort(r.error)
               /\ UNCHANGED <<cm, writes, idx>>
    /\ UNCHANGED <<log, uprn, loaded, gdf, joined, saved, answer>>
    /\ UNCHANGED resolverVars

\* Faulty variant of Save: the save does not wait for the end of the loop.
Save_insideLoop ==
    /\ pc = "update_loop"
    /\ log' = Append(log, "Saving output")
    /\ saved' = TRUE
    /\ answer' = cm.j
    /\ pc' = "saved"
    /\ UNCHANGED <<uprn, cm, loaded, gdf, joined, idx, writes, error>>
    /\ UNCHANGED resolverVars

\* log("Saving output"); cityjson.save(cm, path="./answer.json")
Save ==
    /\ pc = "update_loop"
    /\ idx > Len(cm.j.CityObjects)
    /\ log' = Append(log, "Saving output")
    /\ saved' = TRUE
    /\ answer' = cm.j
    /\ pc' = "saved"
    /\ UNCHANGED <<uprn, cm, loaded, gdf, joined, idx, writes, error>>
    /\ UNCHANGED resolverVars

\* log("Done")
Done ==
    /\ pc = "saved"
    /\ log' = Append(log, "Done")
    /\ pc' = "done"
    /\ UNCHANGED <<uprn, cm, loaded, gdf, joined, idx, writes, saved, answer, error>>
    /\ UNCHANGED resolverVars

Init == MainInit /\ ResolverInit

Next ==
    \/ LoadUprn
    \/ LoadBuildings
    \/ ExtractGeometry
    \/ SpatialJoin
    \/ BeginUpdate
    \/ UpdateCityObject
    \/ Save
    \/ Done

Spec == Init /\ [][Next]_vars

(***************************************************************************)
(* The resolver on its own: get_exterior_ring and extract_geometry applied *)
(* to every boundary reference of BoundaryRefs.                            *)
(***************************************************************************)
RECURSIVE Wrap(_, _)
Wrap(b, n) == IF n = 0 THEN b ELSE Wrap(<<L(b)>>, n - 1)

\* A document of two records; the second holds the boundary reference.
ResolverDocument(vertices, boundaries) ==
    [vertices |-> vertices,
     CityObjects |->
        << [id |-> CoId(1),
            geometry |-> <<Geom("MultiSurface", <<L(<<I(0), I(1), I(2)>>)>>)>>,
            attributes |-> Attrs(TRUE, Unset)],
           [id |-> CoId(2),
            geometry |-> <<Geom("MultiSurface", boundaries)>>,
            attributes |-> Attrs(TRUE, Unset)] >>]

ChooseInput ==
    /\ rpc = "input"
    /\ rVertices' \in VertexTables
    /\ rBoundaries' \in BoundaryRefs
    /\ rpc' = "resolve"
    /\ UNCHANGED <<rPlain, rWrapped, rExtract>>
    /\ UNCHANGED mainVars

Resolve ==
    /\ rpc = "resolve"
    /\ rPlain' = get_exterior_ring(rVertices, rBoundaries)
    /\ rpc' = "wrapped"
    /\ UNCHANGED <<rVertices, rBoundaries, rWrapped, rExtract>>
    /\ UNCHANGED mainVars

ResolveWrapped ==
    /\ rpc = "wrapped"
    /\ rWrapped' = [n \in 1..MaxWrap |-> get_exterior_ring(rVertices, Wrap(rBoundaries, n))]
    /\ rpc' = "extract"
    /\ UNCHANGED <<rVertices, rBoundaries, rPlain, rExtract>>
    /\ UNCHANGED mainVars

Extract ==
    /\ rpc = "extract"
    /\ rExtract' = extract_geometry(ResolverDocument(rVertices, rBoundaries))
    /\ rpc' = "done"
    /\ UNCHANGED <<rVertices, rBoundaries, rPlain, rWrapped>>
    /\ UNCHANGED mainVars

ResolverNext ==
    \/ ChooseInput
    \/ Resolve
    \/ ResolveWrapped
    \/ Extract

ResolverSpec == Init /\ [][ResolverNext]_vars

(***************************************************************************)
(* Properties of the resolver (checked under ResolverSpec).                *)
(***************************************************************************)
\* The list reached from a boundary reference by always descending into
\* element 0.
RECURSIVE FirstDescentLeaf(_)
FirstDescentLeaf(b) ==
    IF Len(b) > 0 /\ b[1].isList THEN FirstDescentLeaf(b[1].items) ELSE b

PlainIndices(leaf) == \A k \in 1..Len(leaf) : ~leaf[k].isList

InRange(vertices, leaf) ==
    \A k \in 1..Len(leaf) : leaf[k].val >= 0 /\ leaf[k].val < Len(vertices)

HasOutOfRange(vertices, leaf) ==
    \E k \in 1..Len(leaf) : leaf[k].val >= Len(vertices)

rLeaf == FirstDescentLeaf(rBoundaries)

\* The case of C1: a leaf of at least three plain, in-range indices.
ResolvableCase ==
    /\ rpc \in {"wrapped", "extract", "done"}
    /\ Len(rLeaf) >= 3
    /\ PlainIndices(rLeaf)
    /\ InRange(rVertices, rLeaf)

LeafVertex(k) == rVertices[rLeaf[k].val + 1]

\* C1 as stated: get_exterior_ring returns a polygon whose coordinate
\* sequence has exactly as many entries as the first-descent leaf, the i-th
\* being the vertex-table entry at the i-th index of the leaf.
C1_AsStated ==
    ResolvableCase =>
        /\ rPlain.ok
        /\ Len(rPlain.value) = Len(rLeaf)
        /\ \A k \in 1..Len(rLeaf) : rPlain.value[k] = LeafVertex(k)

\* C1, amended: for a leaf of n >= 3 in-range indices get_exterior_ring
\* returns a polygon whose coordinate sequence starts with the n leaf
\* vertices in leaf order, whatever the siblings at any nesting level are,
\* and is closed: it has n entries when n >= 4 and the leaf's last vertex has
\* the coordinates of its first, and otherwise n + 1 entries, the last being
\* a copy of the first.
C1_ClosedRing ==
    ResolvableCase =>
        LET n == Len(rLeaf)
            alreadyClosed == n >= 4 /\ LeafVertex(1) = LeafVertex(n)
        IN /\ rPlain.ok
           /\ \A k \in 1..n : rPlain.value[k] = LeafVertex(k)
           /\ Len(rPlain.value) = IF alreadyClosed THEN n ELSE n + 1
           /\ rPlain.value[Len(rPlain.value)] = rPlain.value[1]

\* A nested reference with siblings resolves to its first-descent leaf, here
\* a leaf of three distinct vertices, closed by a fourth coordinate.
C1_Witness ==
    /\ ResolvableCase
    /\ rpc = "done"
    /\ Len(rBoundaries) > 1
    /\ rBoundaries[1].isList
    /\ rBoundaries[1].items[1].isList
    /\ rLeaf = <<I(0), I(1), I(2)>>
    /\ rPlain.ok
    /\ Len(rPlain.value) = 4

\* C2: nesting invariance.  For every resolvable boundary reference B,
\* wrapping B in 1..MaxWrap single-element lists resolves to the same
\* polygon as B itself.
C2_NestingInvariance ==
    (rpc \in {"extract", "done"} /\ rPlain.ok) =>
        \A n \in 1..MaxWrap : rWrapped[n] = rPlain

\* A reference that is itself nested, over the four-vertex table, resolves to
\* the same ring under every wrapper.
C2_Witness ==
    /\ rpc = "done"
    /\ rPlain.ok
    /\ Len(rVertices) = 4
    /\ rLeaf = <<I(0), I(1), I(2), I(3)>>
    /\ rBoundaries # rLeaf
    /\ rWrapped[MaxWrap] = rPlain
    /\ Len(rPlain.value) = 4

\* The case of C7: the first-descent leaf is empty (which includes an empty
\* top level) or names an index beyond the vertex table.
UnresolvableCase ==
    /\ rpc = "done"
    /\ PlainIndices(rLeaf)
    /\ \/ Len(rLeaf) = 0
       \/ HasOutOfRange(rVertices, rLeaf)

\* C7: an empty boundary reference (at the top level or at the first-descent
\* leaf) or an out-of-range index in the leaf makes get_exterior_ring fail
\* with an IndexError and return no polygon, and extract_geometry of a
\* document holding that reference fails with the same error and produces no
\* collection.
C7_FatalLookup ==
    UnresolvableCase =>
        /\ ~rPlain.ok
        /\ rPlain.error = "IndexError"
        /\ rPlain.value = <<>>
        /\ ~rExtract.ok
        /\ rExtract.error = "IndexError"
        /\ rExtract.value = <<>>

\* A nested leaf of three indices, the last beyond the three-vertex table.
C7_Witness ==
    /\ UnresolvableCase
    /\ rBoundaries # rLeaf
    /\ rLeaf = <<I(0), I(1), I(3)>>
    /\ Len(rVertices) = 3
    /\ ~rPlain.ok
    /\ ~rExtract.ok

(***************************************************************************)
(* Properties of a run of main (checked under Spec).                       *)
(***************************************************************************)
Messages ==
    <<"Loading UPRN", "Loading CityJSON", "Extracting geometry",
      "Executing spatial json", "Updating CityObjects", "Saving output", "Done">>

Logged(msg) == \E k \in 1..Len(log) : log[k] = msg

Range(seq) == {seq[k] : k \in 1..Len(seq)}

Records == cm.j.CityObjects
N == Len(Records)

\* The merge loop has run to its end.
Merged == pc \in {"saved", "done"}

\* extract_geometry has returned or raised.
ExtractionOver == Logged("Extracting geometry") /\ pc # "extract"
ExtractionFailed == pc = "failed" /\ Len(log) = 3

\* The polygon of the k-th building in the extracted frame.
Footprint(k) == gdf.rows[k].geometry

\* Twice the signed area of the triangle a, b, p.
Side(p, a, b) == (b[1] - a[1]) * (p[2] - a[2]) - (b[2] - a[2]) * (p[1] - a[1])

Sides(p, ring) == {Side(p, ring[k], ring[k + 1]) : k \in 1..(Len(ring) - 1)}

\* For the convex footprints of the input: p is strictly inside when it lies
\* strictly on the same side of every edge, strictly outside when it lies
\* strictly on different sides of two edges.
StrictlyInside(p, ring) ==
    \/ \A v \in Sides(p, ring) : v > 0
    \/ \A v \in Sides(p, ring) : v < 0

StrictlyOutside(p, ring) ==
    \E v, w \in Sides(p, ring) : v > 0 /\ w < 0

\* C3: once the merge loop has run, every building record has the "uprn"
\* attribute present and list-valued (not None): the join result's list for
\* its id when there is one and the empty list otherwise, in the document and
\* in what is saved.
C3_UprnAlwaysList ==
    Merged =>
        /\ answer = cm.j
        /\ \A k \in 1..N :
            LET a == Records[k].attributes
            IN /\ a.present
               /\ a.uprn.isSet
               /\ ~a.uprn.isNone
               /\ a.uprn.val =
                    IF Records[k].id \in DOMAIN joined
                    THEN joined[Records[k].id] ELSE <<>>

\* Two buildings after a run with addresses: one gets a non-empty list, the
\* other, absent from the join result, the empty list.
C3_Witness ==
    /\ pc = "done"
    /\ N = 2
    /\ Len(uprn) > 0
    /\ Records[1].attributes.uprn.val = <<>>
    /\ Records[1].id \notin DOMAIN joined
    /\ Records[2].attributes.uprn.val # <<>>
    /\ Records[2].attributes.uprn.val # <<999>>

\* C4: after the run, for every address point and every building taken
\* pairwise: a point strictly inside the building's polygon has its UPRN in
\* that building's list, a point strictly outside has not.
C4_InsideOutside ==
    Merged =>
        \A k \in 1..N : \A i \in 1..Len(uprn) :
            LET listed == uprn[i].UPRN \in Range(Records[k].attributes.uprn.val)
            IN /\ StrictlyInside(uprn[i].geometry, Footprint(k)) => listed
               /\ StrictlyOutside(uprn[i].geometry, Footprint(k)) => ~listed

\* A point inside two overlapping polygons is listed under both, a point
\* inside one of them only under that one, a point outside both under none.
C4_Witness ==
    /\ pc = "done"
    /\ N = 2
    /\ Footprint(1) # Footprint(2)
    /\ \E i, h, o \in 1..Len(uprn) :
        /\ StrictlyInside(uprn[i].geometry, Footprint(1))
        /\ StrictlyInside(uprn[i].geometry, Footprint(2))
        /\ uprn[i].UPRN \in Range(Records[1].attributes.uprn.val)
        /\ uprn[i].UPRN \in Range(Records[2].attributes.uprn.val)
        /\ StrictlyOutside(uprn[h].geometry, Footprint(1))
        /\ uprn[h].UPRN \in Range(Records[2].attributes.uprn.val)
        /\ uprn[h].UPRN \notin Range(Records[1].attributes.uprn.val)
        /\ StrictlyOutside(uprn[o].geometry, Footprint(1))
        /\ StrictlyOutside(uprn[o].geometry, Footprint(2))
        /\ uprn[o].UPRN \notin Range(Records[1].attributes.uprn.val)
        /\ uprn[o].UPRN \notin Range(Records[2].attributes.uprn.val)

\* The UPRNs of the address rows inside the ring, in row order.
MatchesInRowOrder(ring) ==
    LET inside == SelectSeq(uprn, LAMBDA row : StrictlyInside(row.geometry, ring))
    IN [k \in 1..Len(inside) |-> inside[k].UPRN]

\* C5: after the run every building's list holds the UPRNs of the address
\* points inside it in the row order of the address table, each once.
C5_RowOrder ==
    Merged =>
        \A k \in 1..N :
            Records[k].attributes.uprn.val = MatchesInRowOrder(Footprint(k))

\* Three addresses inside one building, their UPRNs not in increasing order.
C5_Witness ==
    /\ pc = "done"
    /\ \E k \in 1..N :
        /\ Len(uprn) = 3
        /\ Records[k].attributes.uprn.val = <<uprn[1].UPRN, uprn[2].UPRN, uprn[3].UPRN>>
        /\ uprn[1].UPRN < uprn[2].UPRN
        /\ uprn[3].UPRN < uprn[1].UPRN

\* The first geometry entry of the record has a type other than MultiSurface.
Mismatch(co) == Len(co.geometry) > 0 /\ co.geometry[1].type # "MultiSurface"

\* No record before the k-th makes the extraction fail.
FirstFailing(k) ==
    \A h \in 1..(k - 1) : ExtractOne(loaded.vertices, loaded.CityObjects[h]).ok

\* C6: when some building record has another geometry type than
\* MultiSurface, wherever it stands, the extraction raises instead of
\* skipping it (the ValueError of the type check, unless an earlier record
\* has already raised), the join is never started, no attribute bag is
\* written and nothing is saved.
C6_MismatchAborts ==
    (ExtractionOver /\ \E k \in 1..Len(loaded.CityObjects) : Mismatch(loaded.CityObjects[k])) =>
        /\ ExtractionFailed
        /\ error \in {"ValueError", "IndexError"}
        /\ \A k \in 1..Len(loaded.CityObjects) :
                (Mismatch(loaded.CityObjects[k]) /\ FirstFailing(k)) => error = "ValueError"
        /\ ~Logged("Executing spatial json")
        /\ gdf.rows = <<>>
        /\ joined = <<>>
        /\ cm.j = loaded
        /\ \A k \in 1..Len(writes) : writes[k] = 0
        /\ ~saved

\* The offending record stands after a well-formed one.
C6_Witness ==
    /\ pc = "failed"
    /\ error = "ValueError"
    /\ Len(loaded.CityObjects) = 2
    /\ ~Mismatch(loaded.CityObjects[1])
    /\ Mismatch(loaded.CityObjects[2])
    /\ Len(uprn) > 0

\* C8: from the load on, the vertex table, the building ids and their order,
\* every record's geometry and every attribute other than "uprn" are as they
\* were loaded; the saved document differs from the loaded one in the "uprn"
\* attributes only.
SameButUprn(doc, orig) ==
    /\ doc.vertices = orig.vertices
    /\ Len(doc.CityObjects) = Len(orig.CityObjects)
    /\ \A k \in 1..Len(doc.CityObjects) :
        /\ doc.CityObjects[k].id = orig.CityObjects[k].id
        /\ doc.CityObjects[k].geometry = orig.CityObjects[k].geometry
        /\ doc.CityObjects[k].attributes.present = orig.CityObjects[k].attributes.present
        /\ doc.CityObjects[k].attributes.other = orig.CityObjects[k].attributes.other

C8_Frame ==
    /\ SameButUprn(cm.j, loaded)
    /\ saved => SameButUprn(answer, loaded)
    /\ (pc \in {"join", "update", "update_loop"} /\ idx <= 1) => cm.j = loaded

\* A run that has rewritten a record's "uprn" attribute.
C8_Witness ==
    /\ pc = "done"
    /\ N = 2
    /\ cm.j # loaded
    /\ loaded.CityObjects[2].attributes.uprn.isSet
    /\ Records[2].attributes.uprn # loaded.CityObjects[2].attributes.uprn
    /\ Len(Records[1].geometry) = 2

\* The stages in the order main runs them; a run that fails stays failed.
StageOrder ==
    {<<"load_uprn", "load_buildings">>, <<"load_buildings", "extract">>,
     <<"extract", "join">>, <<"join", "update">>, <<"update", "update_loop">>,
     <<"update_loop", "saved">>, <<"saved", "done">>}

Prefix(s, t) == Len(s) <= Len(t) /\ \A k \in 1..Len(s) : s[k] = t[k]

\* What holds of every state of a run.
StagesInOrder ==
    /\ Prefix(log, Messages)
    /\ \A k \in 1..Len(writes) : writes[k] \in {0, 1}
    /\ (\E k \in 1..Len(writes) : writes[k] > 0) =>
            /\ Logged("Executing spatial json")
            /\ Logged("Updating CityObjects")
    /\ saved <=> Logged("Saving output")
    /\ saved => \A k \in 1..Len(writes) : writes[k] = 1
    /\ pc = "failed" => (error # "none" /\ ~saved /\ answer = EmptyDocument)
    /\ pc # "failed" => error = "none"

\* What holds of every step of a run.
StepInOrder ==
    /\ pc' # pc => (<<pc, pc'>> \in StageOrder \/ (pc' = "failed" /\ pc \notin {"saved", "done"}))
    /\ uprn' # uprn => pc = "load_uprn"
    /\ loaded' # loaded => pc = "load_buildings"
    /\ gdf' # gdf => pc = "extract"
    /\ joined' # joined => pc = "join"
    /\ cm' # cm => pc \in {"load_buildings", "update_loop"}
    /\ writes' # writes =>
        /\ pc \in {"load_buildings", "update_loop"}
        /\ pc = "update_loop" =>
            /\ writes' = [writes EXCEPT ![idx] = 1]
            /\ cm'.j.CityObjects[idx].attributes.uprn.isSet
    /\ saved' # saved => (pc = "update_loop" /\ saved' /\ \A k \in 1..Len(writes) : writes[k] = 1)
    /\ pc = "failed" => UNCHANGED mainVars

\* C9: the stages run strictly in the order load, extract geometry, join,
\* merge, save; each record's attribute bag is written exactly once, after
\* the join; the save comes after every record has been written; a run that
\* fails at any stage ends with nothing saved.
C9_StageOrder == [](StagesInOrder) /\ [][StepInOrder]_vars

\* A complete run over two buildings: every message printed in order, each
\* record written once, the document saved.
C9_Witness ==
    /\ pc = "done"
    /\ log = Messages
    /\ N = 2
    /\ \A k \in 1..N : writes[k] = 1
    /\ saved
    /\ answer = cm.j

\* The document with every geometry entry after the first removed.
FirstEntriesOnly(doc) ==
    [doc EXCEPT !.CityObjects =
        [k \in 1..Len(doc.CityObjects) |->
            [doc.CityObjects[k] EXCEPT !.geometry =
                IF Len(@) > 1 THEN <<@[1]>> ELSE @]]]

\* The first entry of the record can be resolved to a polygon.
Resolvable(vertices, co) ==
    LET leaf == FirstDescentLeaf(co.geometry[1].boundaries)
    IN Len(leaf) >= 3 /\ PlainIndices(leaf) /\ InRange(vertices, leaf)

Accepted(vertices, co) ==
    Len(co.geometry) > 0 /\ ~Mismatch(co) /\ Resolvable(vertices, co)

\* C10: extract_geometry looks at the first geometry entry of each record
\* only.  The extraction raises the ValueError of the type check exactly
\* when the first record it cannot accept has a first entry of another type
\* than MultiSurface; a record without any geometry entry makes it raise too;
\* otherwise each polygon is the one resolved from the first entry's
\* boundaries.  The outcome is that of the document with every further
\* entry removed.
C10_FirstEntryOnly ==
    ExtractionOver =>
        LET cos == loaded.CityObjects
            rejected == {k \in 1..Len(cos) : ~Accepted(loaded.vertices, cos[k])}
            stripped == extract_geometry(FirstEntriesOnly(loaded))
        IN /\ ExtractionFailed <=> rejected # {}
           /\ ExtractionFailed =>
                /\ error = "ValueError" <=> Mismatch(cos[Min(rejected)])
                /\ Len(cos[Min(rejected)].geometry) = 0 => error = "IndexError"
                /\ ~stripped.ok
                /\ stripped.error = error
           /\ ~ExtractionFailed =>
                /\ stripped.ok
                /\ gdf = stripped.value
                /\ Len(gdf.rows) = Len(cos)
                /\ \A k \in 1..Len(cos) :
                    /\ gdf.rows[k].id = cos[k].id
                    /\ gdf.rows[k].geometry =
                        get_exterior_ring(loaded.vertices, cos[k].geometry[1].boundaries).value

\* A record whose second geometry entry is a Solid is accepted and gets the
\* polygon of its first entry.
C10_Witness ==
    /\ pc = "done"
    /\ N = 2
    /\ Len(Records[2].geometry) = 2
    /\ Records[2].geometry[1].type = "MultiSurface"
    /\ Records[2].geometry[2].type = "Solid"
    /\ Len(Records[1].geometry) = 1
    /\ Records[1].geometry[1] = Records[2].geometry[1]
    /\ Footprint(1) = Footprint(2)
    /\ Len(Footprint(2)) = 5

====
